---- MODULE Spec2Model ----
(***************************************************************************)
(* IHCBridge (src/IHCBridge.py): a bridge between an IHC controller (HTTP  *)
(* command API + websocket event stream) and an MQTT bus.                  *)
(*                                                                         *)
(* Three threads share the object's fields without any lock:               *)
(*   main  - IHCBridge.run: the 1 s sweep (check_pending_confirmations)    *)
(*   bus   - the paho network loop (loop_start): on_message and             *)
(*           set_ihc_output                                                *)
(*   ws    - websocket_worker: recv and process_ihc_event                  *)
(* Each handler is cut into the steps between which another thread can     *)
(* run (every access of a shared field is its own step).                   *)
(*                                                                         *)
(* Spec      the three threads on the confirmation registry and the        *)
(*           failure window, with a clock.                                 *)
(* SpecIO    command ingress and event relay between two sweeps, with      *)
(*           what they send (the POST, the publish) recorded.              *)
(* SpecConn  the life cycle of the event-stream thread: start, rebuild     *)
(*           (reset_connections) and shutdown.                             *)
(***************************************************************************)
EXTENDS Integers, Sequences, FiniteSets, TLC

\* ---------------------------------------------------------------- bounds
MaxTicks == 2
MaxOps == 4
MaxThreads == 3

\* ------------------------------------------------------ program constants
confirmation_timeout == 10
failure_threshold == 3
failure_window == 300
\* reset_connections waits this long for the old event-stream thread ...
join_timeout == 3
\* ... which sleeps this long between two connection attempts.
retry_sleep == 10
\* reset_connections probes the command API this many times at most.
max_retries == 5

\* -------------------------------------------------------- input domains
\* Amounts by which time.time() is seen to advance between two steps.
Steps == {10, 11, 300}
\* Module and output numbers used on the bus and in events.
Modules == {4}
Outputs == {1, 2}
\* MQTT payloads, as sequences of characters.
Payloads == { <<"O", "N">>, <<"o", "n">>, <<"O", "n">>, <<"O", "F", "F">>, <<"n", "o">> }
\* The two of them the timed specification sends (the letter case plays no part there).
PlainPayloads == { <<"O", "N">>, <<"O", "F", "F">> }
\* Event types of the controller's event stream.
EventTypes == {"outputState", "inputState"}

VARIABLES
    \* ---- the object's fields
    running,                \* self.running
    pending_confirmations,  \* self.pending_confirmations: a dict, kept in insertion order
    confirmation_failures,  \* self.confirmation_failures: list of timestamps
    last_check_time,        \* self.last_check_time
    ws,                     \* self.ws: "None" | "open" | "closed"
    ws_thread,              \* self.ws_thread: id of the Thread object, 0 = None
    ws_stop_event,          \* self.ws_stop_event (threading.Event)
    \* ---- the world
    now,                    \* time.time()
    last_pub,               \* the message the step just taken handed to mqtt_client.publish
    http_req,               \* the body the step just taken POSTed to /ihcrequest
    http_resp,              \* how that POST was answered
    last_msg,               \* the bus message the step just taken called on_message with
    \* ---- main thread (run / check_pending_confirmations)
    mpc, current_time, restart_needed, keys_to_remove, it_used, it_pos, rm_pos,
    \* ---- event-stream thread inside process_ihc_event
    wpc, w_event,
    \* ---- event-stream threads (websocket_worker), by thread id
    worker,
    \* ---- reset_connections callers
    rpc,
    retry_count,            \* reset_connections' local retry_count, by caller
    \* ---- the bus client and the life cycle
    mqtt,                   \* self.mqtt_client: "new" | "looping" | "stopped"
    bus_cmd,                \* the system command the bus thread is handling, or "none"
    history,                \* the start-up and teardown operations performed, in order
    \* ---- observations
    probe,                  \* whether what is sent (last_pub, http_req) is recorded
    failed,                 \* by thread id: a connect or read failed and the thread has not slept since
    stale,                  \* by thread id: self.ws was rebound after the thread read the ping it is answering
    ticks,                  \* how many clock steps so far
    ops,                    \* how many stores and matched confirmations so far
    timeouts,               \* timestamps of the timeout events since the last trigger
    win0                    \* the failure window as it was when the running sweep began

vars == << running, pending_confirmations, confirmation_failures, last_check_time,
           ws, ws_thread, ws_stop_event, now, last_pub, http_req, http_resp,
           last_msg,
           mpc, current_time, restart_needed, keys_to_remove, it_used, it_pos, rm_pos,
           wpc, w_event,
           worker, rpc, retry_count, mqtt, bus_cmd, history, probe, failed, stale, ticks, ops, timeouts, win0 >>

connVars == << ws, ws_thread, ws_stop_event, worker, rpc, retry_count >>
mainVars == << mpc, current_time, restart_needed, keys_to_remove, it_used, it_pos, rm_pos >>
relayVars == << wpc, w_event >>
regVars == << pending_confirmations, confirmation_failures, last_check_time >>
lifeVars == << mqtt, bus_cmd, history >>
obsVars == << probe, failed, stale, ticks, ops, timeouts, win0 >>

\* ------------------------------------------------------- pure functions

\* A str.upper() that leaves every character as it is.
UpperChar_Same(c) == c

\* str.upper() on one character of the payload alphabet (line 169).
UpperChar(c) ==
    CASE c = "o" -> "O"
      [] c = "n" -> "N"
      [] c = "f" -> "F"
      [] c = "r" -> "R"
      [] c = "e" -> "E"
      [] c = "s" -> "S"
      [] c = "t" -> "T"
      [] c = "a" -> "A"
      [] OTHER -> c

\* payload.upper()
Upper(s) == [i \in DOMAIN s |-> UpperChar(s[i])]

\* state = payload.upper() == "ON"
StateOfPayload(payload) == Upper(payload) = <<"O", "N">>

\* "ON" if state else "OFF"
OnOff(state) == IF state THEN "ON" ELSE "OFF"

\* An integer as an f-string renders it.
Str(n) ==
    CASE n = 1 -> "1"
      [] n = 2 -> "2"
      [] n = 4 -> "4"
      [] OTHER -> "?"

\* int(segment): the segments that parse, and what they parse to.
IntSegments == {"1", "2", "4"}
ParseInt(s) ==
    CASE s = "1" -> 1
      [] s = "2" -> 2
      [] s = "4" -> 4
      [] OTHER -> 0

\* key = f"{module}_{output}"
KeyOf(module, output) == <<Str(module), "_", Str(output)>>

\* topic = f"ihc/output/{module}/{output}/state", as its segments
CommandStateTopic(module, output) == <<"ihc", "output", Str(module), Str(output), "state">>

\* topic = f"ihc/{event_type}/{module_number}/{io_number}/state"
EventStateTopic(event) ==
    <<"ihc", event.type, Str(event.moduleNumber), Str(event.ioNumber), "state">>

\* Topics of incoming bus messages, as topic.split("/") yields them.
\* The ones the timed specification sends.
PlainTopics ==
    { <<"ihc", "output", Str(m), Str(o), "set">> : m \in Modules, o \in Outputs }
    \cup { <<"foo", "bar">>, <<"ihc", "output", "x", "1", "set">> }
TopicsIn ==
    PlainTopics
    \cup { <<"ihc", "input", "4", "1", "set">>, <<"ihc", "output", "4", "1", "get">>,
           <<"ihc", "output", "4", "1">>, <<"ihc", "output", "4", "y", "set">> }

\* A topic test that looks at the number of segments only.
ValidTopic_Len(topic_parts) == Len(topic_parts) = 5

\* The topic test of on_message.
ValidTopic(topic_parts) ==
    /\ Len(topic_parts) = 5
    /\ topic_parts[1] = "ihc"
    /\ topic_parts[2] = "output"
    /\ topic_parts[5] = "set"

\* Events the controller sends on the event stream.
Events == [type : EventTypes, moduleNumber : Modules, ioNumber : Outputs, state : BOOLEAN]

\* msg, as on_message reads it: msg.topic split at "/", msg.payload decoded.
Message(topic, payload) == [topic |-> topic, payload |-> payload]

\* self.mqtt_client.publish(topic, payload, retain=True)
Publish(topic, payload) == [topic |-> topic, payload |-> payload, retain |-> TRUE]

\* ---- the dict self.pending_confirmations, in insertion order
DictHas(d, k) == \E i \in 1..Len(d) : d[i].key = k
DictIdx(d, k) == CHOOSE i \in 1..Len(d) : d[i].key = k
DictGet(d, k) == d[DictIdx(d, k)]
\* A store that adds an entry whether or not the key is there.
DictSet_Add(d, k, v) == Append(d, v)
\* d[k] = v
DictSet(d, k, v) ==
    IF DictHas(d, k) THEN [d EXCEPT ![DictIdx(d, k)] = v] ELSE Append(d, v)
\* del d[k]
DictDel(d, k) ==
    LET i == DictIdx(d, k) IN SubSeq(d, 1, i - 1) \o SubSeq(d, i + 1, Len(d))

\* The entry set_ihc_output stores.
Entry(module, output, state, t) ==
    [key |-> KeyOf(module, output), state |-> state, timestamp |-> t,
     module |-> module, output |-> output]

\* current_time - info["timestamp"] > self.confirmation_timeout
Expired(info, t) == t - info.timestamp > confirmation_timeout

\* A window that is never pruned.
Prune_Keep(failures, t) == failures
\* [t for t in self.confirmation_failures if current_time - t < self.failure_window]
Prune(failures, t) == SelectSeq(failures, LAMBDA x : t - x < failure_window)

\* len(self.confirmation_failures) >= self.failure_threshold
ThresholdReached(failures) == Len(failures) >= failure_threshold

\* Where a dict iterator stands after another thread deleted the entry at
\* index idx: the entries behind it keep their place when the table is not
\* rebuilt, and move up by one when it is.
IterAfterDel(idx) ==
    IF mpc = "iter" /\ idx < it_pos THEN {it_pos - 1, it_pos} ELSE {it_pos}

\* A sweep has started scanning and has not yet removed the keys it expired.
InSweep == mpc \in {"iter", "remove"}

\* loop_start() has run, loop_stop() has not, and the bus thread is not inside
\* a handler: it delivers the next message.
BusLoopRunning == mqtt = "looping" /\ bus_cmd = "none"

\* ------------------------------------------------------------------ Init
\* The object as __init__ leaves it.
Init ==
    /\ running = FALSE
    /\ pending_confirmations = <<>>
    /\ confirmation_failures = <<>>
    /\ last_check_time = 0
    /\ ws = "None"
    /\ ws_thread = 0
    /\ ws_stop_event = FALSE
    /\ now = 1000
    /\ last_pub = <<>>
    /\ http_req = <<>>
    /\ http_resp = <<>>
    /\ last_msg = <<>>
    /\ mpc = "init"
    /\ current_time = 0
    /\ restart_needed = FALSE
    /\ keys_to_remove = <<>>
    /\ it_used = 0
    /\ it_pos = 1
    /\ rm_pos = 1
    /\ wpc = "idle"
    /\ w_event = <<>>
    /\ worker = [i \in 1..MaxThreads |-> "none"]
    /\ rpc = [main |-> "none", bus |-> "none"]
    /\ retry_count = [main |-> 0, bus |-> 0]
    /\ mqtt = "new"
    /\ bus_cmd = "none"
    /\ history = <<>>
    /\ probe = FALSE
    /\ ticks = 0
    /\ ops = 0
    /\ timeouts = <<>>
    /\ win0 = <<>>
    /\ failed = [i \in 1..MaxThreads |-> FALSE]
    /\ stale = [i \in 1..MaxThreads |-> FALSE]

\* What a step sends, as the probe records it.
Sent(message) == IF probe THEN message ELSE <<>>

\* A step that sends nothing: no publish, no POST.
Quiet ==
    /\ last_pub' = <<>>
    /\ http_req' = <<>>
    /\ http_resp' = <<>>
    /\ last_msg' = <<>>

\* ----------------------------------------------------------------- clock
\* The clock is read in whole seconds: it advances while a thread waits (the
\* loop's sleep, the restart), not inside the short runs of statements
\* between two waits.
Tick(d) ==
    /\ ticks < MaxTicks
    /\ mpc \in {"loop", "restart"}
    /\ wpc = "idle"
    /\ now' = now + d
    /\ ticks' = ticks + 1
    /\ Quiet
    /\ UNCHANGED << lifeVars, running, regVars, connVars, mainVars, relayVars, probe, failed, stale, ops, timeouts,
                    win0 >>

\* ------------------------------------------------------- main thread: run
\* run() up to its loop: the broker is reached, the network loop and the
\* event-stream thread are started.
Run_Start ==
    /\ mpc = "init"
    /\ running' = TRUE
    /\ ws_thread' = 1
    /\ worker' = [worker EXCEPT ![1] = "top"]
    /\ mpc' = "loop"
    /\ mqtt' = "looping"
    /\ Quiet
    /\ UNCHANGED << bus_cmd, history, regVars, ws, ws_stop_event, rpc, retry_count, now, current_time, restart_needed,
                    keys_to_remove, it_used, it_pos, rm_pos, relayVars, obsVars >>

\* connect_mqtt gives up after its retries and returns False: run logs
\* "Exiting." and returns before anything is started.
Run_StartFail ==
    /\ mpc = "init"
    /\ mpc' = "stopped"
    /\ history' = Append(history, "connect_mqtt failed")
    /\ Quiet
    /\ UNCHANGED << mqtt, bus_cmd, running, regVars, connVars, now, current_time,
                    restart_needed, keys_to_remove, it_used, it_pos, rm_pos, relayVars,
                    obsVars >>

\* One turn of the loop whose second is up: check_pending_confirmations is
\* entered, and the for statement takes its iterator over the dict.
Run_Loop ==
    /\ mpc = "loop"
    /\ running
    /\ now - last_check_time >= 1
    /\ current_time' = now
    /\ restart_needed' = FALSE
    /\ keys_to_remove' = <<>>
    /\ it_used' = Len(pending_confirmations)
    /\ it_pos' = 1
    /\ rm_pos' = 1
    /\ mpc' = "iter"
    /\ win0' = confirmation_failures
    /\ Quiet
    /\ UNCHANGED << lifeVars, running, regVars, connVars, now, relayVars, probe, failed, stale, ticks, ops,
                    timeouts >>

\* next() on the dict iterator finds the dict's size changed: RuntimeError,
\* which leaves check_pending_confirmations and reaches run's except clause.
Sweep_IterRaise ==
    /\ mpc = "iter"
    /\ Len(pending_confirmations) # it_used
    /\ mpc' = "except"
    /\ Quiet
    /\ UNCHANGED << lifeVars, running, regVars, connVars, now, current_time, restart_needed,
                    keys_to_remove, it_used, it_pos, rm_pos, relayVars, obsVars >>

\* One pass of the for body over the next entry.
Sweep_IterStep ==
    /\ mpc = "iter"
    /\ Len(pending_confirmations) = it_used
    /\ it_pos <= Len(pending_confirmations)
    /\ LET info == pending_confirmations[it_pos] IN
         /\ it_pos' = it_pos + 1
         /\ IF Expired(info, current_time)
              THEN LET failures == Prune(Append(confirmation_failures, current_time),
                                         current_time) IN
                   /\ confirmation_failures' = failures
                   /\ restart_needed' = (restart_needed \/ ThresholdReached(failures))
                   /\ keys_to_remove' = Append(keys_to_remove, info.key)
                   /\ timeouts' = Append(timeouts, current_time)
              ELSE UNCHANGED << lifeVars, confirmation_failures, restart_needed, keys_to_remove,
                                timeouts >>
    /\ Quiet
    /\ UNCHANGED << lifeVars, running, pending_confirmations, last_check_time, connVars, now,
                    mpc, current_time, it_used, rm_pos, relayVars, probe, failed, stale, ticks, ops,
                    win0 >>

\* The iterator is exhausted: the for statement ends.
Sweep_IterStop ==
    /\ mpc = "iter"
    /\ Len(pending_confirmations) = it_used
    /\ it_pos > Len(pending_confirmations)
    /\ mpc' = "remove"
    /\ Quiet
    /\ UNCHANGED << lifeVars, running, regVars, connVars, now, current_time, restart_needed,
                    keys_to_remove, it_used, it_pos, rm_pos, relayVars, obsVars >>

\* del self.pending_confirmations[key] for the next key of keys_to_remove.
Sweep_Remove ==
    /\ mpc = "remove"
    /\ rm_pos <= Len(keys_to_remove)
    /\ DictHas(pending_confirmations, keys_to_remove[rm_pos])
    /\ pending_confirmations' = DictDel(pending_confirmations, keys_to_remove[rm_pos])
    /\ rm_pos' = rm_pos + 1
    /\ Quiet
    /\ UNCHANGED << lifeVars, running, confirmation_failures, last_check_time, connVars, now,
                    mpc, current_time, restart_needed, keys_to_remove, it_used, it_pos,
                    relayVars, obsVars >>

\* The del finds the key gone (another thread removed it): KeyError, which
\* leaves check_pending_confirmations and reaches run's except clause.
Sweep_RemoveRaise ==
    /\ mpc = "remove"
    /\ rm_pos <= Len(keys_to_remove)
    /\ ~DictHas(pending_confirmations, keys_to_remove[rm_pos])
    /\ mpc' = "except"
    /\ Quiet
    /\ UNCHANGED << lifeVars, running, regVars, connVars, now, current_time, restart_needed,
                    keys_to_remove, it_used, it_pos, rm_pos, relayVars, obsVars >>

\* if restart_needed: the window is reset and restart_ihc_server() called.
Sweep_Trigger ==
    /\ mpc = "remove"
    /\ rm_pos > Len(keys_to_remove)
    /\ restart_needed
    /\ confirmation_failures' = <<>>
    /\ mpc' = "restart"
    /\ timeouts' = <<>>
    /\ Quiet
    /\ UNCHANGED << lifeVars, running, pending_confirmations, last_check_time, connVars, now,
                    current_time, restart_needed, keys_to_remove, it_used, it_pos, rm_pos,
                    relayVars, probe, failed, stale, ticks, ops, win0 >>

\* check_pending_confirmations returns (directly, or when restart_ihc_server
\* has returned) and run notes the time of the check.
Sweep_Return ==
    /\ \/ mpc = "remove" /\ rm_pos > Len(keys_to_remove) /\ ~restart_needed
       \/ mpc = "restart"
    /\ last_check_time' = current_time
    /\ mpc' = "loop"
    /\ current_time' = 0
    /\ restart_needed' = FALSE
    /\ keys_to_remove' = <<>>
    /\ it_used' = 0
    /\ it_pos' = 1
    /\ rm_pos' = 1
    /\ win0' = <<>>
    /\ Quiet
    /\ UNCHANGED << lifeVars, running, pending_confirmations, confirmation_failures, connVars, now,
                    relayVars, probe, failed, stale, ticks, ops, timeouts >>

\* run's except and finally clauses: the loop was left by an exception
\* ("except"), by sys.exit or by self.running being false ("finally"). The
\* stop event is set, the event-stream thread joined for at most 5 s, the bus
\* client stopped and disconnected; run returns and the process ends, and
\* with it its daemon threads.
Run_Finally ==
    /\ mpc \in {"except", "finally"}
    /\ ws_stop_event' = TRUE
    /\ mqtt' = "stopped"
    /\ history' = history \o <<"ws_stop_event.set", "ws_thread.join", "loop_stop",
                               "disconnect">>
    /\ mpc' = "stopped"
    /\ worker' = [i \in 1..MaxThreads |-> IF worker[i] = "none" THEN "none" ELSE "done"]
    /\ rpc' = [main |-> "none", bus |-> "none"]
    /\ retry_count' = [main |-> 0, bus |-> 0]
    /\ bus_cmd' = "none"
    /\ Quiet
    /\ UNCHANGED << running, regVars, ws, ws_thread, now, current_time,
                    restart_needed, keys_to_remove, it_used, it_pos, rm_pos, relayVars,
                    obsVars >>

\* ------------------------------- bus thread: on_message, set_ihc_output
\* The only field of the object a command touches is the dict, in one store:
\* the handler is one step.

\* The reserved control topics, and the topic of the status notices.
SystemRestart == <<"ihc", "system", "restart">>
SystemPiRestart == <<"ihc", "system", "pi_restart">>
SystemStatus == <<"ihc", "system", "status">>
SystemTopics == {SystemRestart, SystemPiRestart}
\* Payloads sent on them.
SystemPayloads ==
    { <<"R", "E", "S", "T", "A", "R", "T">>, <<"r", "e", "s", "t", "a", "r", "t">>,
      <<"R", "e", "s", "t", "a", "r", "t">>, <<"R", "E", "S", "T", "A", "R">>,
      <<"O", "N">> }

\* payload.upper() == "RESTART"
IsTrigger(payload) == Upper(payload) = <<"R", "E", "S", "T", "A", "R", "T">>

\* The message is a system command: on_message handles it and returns.
IsSystemCommand(topic, payload) == topic \in SystemTopics /\ IsTrigger(payload)

\* self.mqtt_client.publish("ihc/system/status", text, retain=False)
Notice(text) == [topic |-> SystemStatus, payload |-> text, retain |-> FALSE]

\* The topic is ihc/output/<int>/<int>/set.
IsCommand(topic) ==
    /\ ValidTopic(topic)
    /\ topic[3] \in IntSegments
    /\ topic[4] \in IntSegments

\* payload = {"type": "setOutput", "moduleNumber": ..., "ioNumber": ..., "state": ...}
Request(module, output, state) ==
    [type |-> "setOutput", moduleNumber |-> module, ioNumber |-> output, state |-> state]

\* A message that is no system command and whose topic is not
\* ihc/output/<int>/<int>/set: logged, dropped (the format test, or int()
\* raising into the handler's except clause).
Bus_Discard(topic, payload) ==
    /\ BusLoopRunning
    /\ ~IsCommand(topic)
    /\ ~IsSystemCommand(topic, payload)
    /\ last_msg' = Sent(Message(topic, payload))
    /\ last_pub' = <<>>
    /\ http_req' = <<>>
    /\ http_resp' = <<>>
    /\ UNCHANGED << lifeVars, running, regVars, connVars, now, mainVars, relayVars, obsVars >>

\* An output command whose POST answers 200: the pending confirmation is
\* stored and the commanded state published.
Bus_SetOk(topic, payload) ==
    /\ BusLoopRunning
    /\ IsCommand(topic)
    /\ ops < MaxOps
    /\ ops' = ops + 1
    /\ last_msg' = Sent(Message(topic, payload))
    /\ LET module == ParseInt(topic[3])
           output == ParseInt(topic[4])
           state == StateOfPayload(payload) IN
         /\ http_req' = Sent(Request(module, output, state))
         /\ http_resp' = Sent([status |-> 200])
         /\ pending_confirmations' =
              DictSet(pending_confirmations, KeyOf(module, output),
                      Entry(module, output, state, now))
         /\ last_pub' = Sent(Publish(CommandStateTopic(module, output), OnOff(state)))
    /\ UNCHANGED << lifeVars, running, confirmation_failures, last_check_time, connVars, now,
                    mainVars, relayVars, probe, failed, stale, ticks, timeouts, win0 >>

\* A failed POST after which the commanded state is published all the same.
Bus_SetFail_Echo(topic, payload) ==
    /\ BusLoopRunning
    /\ IsCommand(topic)
    /\ last_msg' = Sent(Message(topic, payload))
    /\ http_req' =
         Sent(Request(ParseInt(topic[3]), ParseInt(topic[4]), StateOfPayload(payload)))
    /\ http_resp' = Sent([status |-> 500])
    /\ last_pub' = Sent(Publish(CommandStateTopic(ParseInt(topic[3]), ParseInt(topic[4])),
                                OnOff(StateOfPayload(payload))))
    /\ UNCHANGED << lifeVars, running, regVars, connVars, now, mainVars, relayVars, obsVars >>

\* The ways the POST fails: a status other than 200, a RequestException.
Failures == { [status |-> 500], [raised |-> "RequestException"] }

\* An output command whose POST answers another status or raises
\* RequestException: logged.
Bus_SetFail(topic, payload) ==
    /\ BusLoopRunning
    /\ IsCommand(topic)
    /\ last_msg' = Sent(Message(topic, payload))
    /\ http_req' =
         Sent(Request(ParseInt(topic[3]), ParseInt(topic[4]), StateOfPayload(payload)))
    /\ \E response \in Failures : http_resp' = Sent(response)
    /\ last_pub' = <<>>
    /\ UNCHANGED << lifeVars, running, regVars, connVars, now, mainVars, relayVars, obsVars >>

\* ------------------------------- event-stream thread: process_ihc_event
\* key in self.pending_confirmations and self.pending_confirmations[key]["state"] == state
Matches(d, event) ==
    /\ DictHas(d, KeyOf(event.moduleNumber, event.ioNumber))
    /\ DictGet(d, KeyOf(event.moduleNumber, event.ioNumber)).state = event.state

\* The event-stream thread is reading.
Reading ==
    /\ ws_thread # 0
    /\ ~ws_stop_event
    /\ wpc = "idle"

\* recv() returns an event with all its fields: it is published, retained; it
\* is no output-state report, or no pending confirmation matches it.
Ws_Event(event) ==
    /\ Reading
    /\ ~(event.type = "outputState" /\ Matches(pending_confirmations, event))
    /\ last_pub' = Sent(Publish(EventStateTopic(event), OnOff(event.state)))
    /\ http_req' = <<>>
    /\ http_resp' = <<>>
    /\ last_msg' = <<>>
    /\ UNCHANGED << lifeVars, running, regVars, connVars, now, mainVars, relayVars, obsVars >>

\* recv() returns an output-state report that a pending confirmation matches:
\* it is published, and the test of the confirmation succeeds.
Ws_Match(event) ==
    /\ Reading
    /\ event.type = "outputState"
    /\ Matches(pending_confirmations, event)
    /\ ops < MaxOps
    /\ ops' = ops + 1
    /\ last_pub' = Sent(Publish(EventStateTopic(event), OnOff(event.state)))
    /\ http_req' = <<>>
    /\ http_resp' = <<>>
    /\ last_msg' = <<>>
    /\ w_event' = event
    /\ wpc' = "del"
    /\ UNCHANGED << lifeVars, running, regVars, connVars, now, mainVars, probe, failed, stale, ticks, timeouts,
                    win0 >>

\* del self.pending_confirmations[key]
Ws_Del ==
    /\ wpc = "del"
    /\ DictHas(pending_confirmations, KeyOf(w_event.moduleNumber, w_event.ioNumber))
    /\ LET key == KeyOf(w_event.moduleNumber, w_event.ioNumber) IN
         /\ pending_confirmations' = DictDel(pending_confirmations, key)
         /\ it_pos' \in IterAfterDel(DictIdx(pending_confirmations, key))
    /\ wpc' = "idle"
    /\ w_event' = <<>>
    /\ Quiet
    /\ UNCHANGED << lifeVars, running, confirmation_failures, last_check_time, connVars, now,
                    mpc, current_time, restart_needed, keys_to_remove, it_used, rm_pos,
                    obsVars >>

\* The del finds the key gone: the KeyError is caught and logged.
Ws_DelRaise ==
    /\ wpc = "del"
    /\ ~DictHas(pending_confirmations, KeyOf(w_event.moduleNumber, w_event.ioNumber))
    /\ wpc' = "idle"
    /\ w_event' = <<>>
    /\ Quiet
    /\ UNCHANGED << lifeVars, running, regVars, connVars, now, mainVars, obsVars >>

\* ------------------------------------------------------------------ Spec
Next ==
    \/ \E d \in Steps : Tick(d)
    \/ Run_Start
    \/ Run_Loop
    \/ Sweep_IterRaise
    \/ Sweep_IterStep
    \/ Sweep_IterStop
    \/ Sweep_Remove
    \/ Sweep_RemoveRaise
    \/ Sweep_Trigger
    \/ Sweep_Return
    \/ Run_Finally
    \/ \E topic \in PlainTopics, payload \in PlainPayloads : Bus_Discard(topic, payload)
    \/ \E topic \in PlainTopics, payload \in PlainPayloads : Bus_SetOk(topic, payload)
    \/ \E topic \in PlainTopics, payload \in PlainPayloads : Bus_SetFail(topic, payload)
    \/ \E event \in Events : Ws_Event(event)
    \/ \E event \in Events : Ws_Match(event)
    \/ Ws_Del
    \/ Ws_DelRaise

Spec == Init /\ [][Next]_vars

\* ------------------------------------------------------------- SpecSweep
\* The bridge some time into its run: two confirmations timed out 100 s and
\* 50 s ago, a third command has been waiting 11 s for its confirmation, and
\* the last sweep was a second ago.
InitSweep ==
    /\ running = TRUE
    /\ pending_confirmations = << Entry(4, 1, TRUE, 989) >>
    /\ confirmation_failures = << 900, 950 >>
    /\ last_check_time = 999
    /\ ws = "None"
    /\ ws_thread = 1
    /\ ws_stop_event = FALSE
    /\ now = 1000
    /\ last_pub = <<>>
    /\ http_req = <<>>
    /\ http_resp = <<>>
    /\ last_msg = <<>>
    /\ mpc = "loop"
    /\ current_time = 0
    /\ restart_needed = FALSE
    /\ keys_to_remove = <<>>
    /\ it_used = 0
    /\ it_pos = 1
    /\ rm_pos = 1
    /\ wpc = "idle"
    /\ w_event = <<>>
    /\ worker = [i \in 1..MaxThreads |-> IF i = 1 THEN "top" ELSE "none"]
    /\ rpc = [main |-> "none", bus |-> "none"]
    /\ retry_count = [main |-> 0, bus |-> 0]
    /\ mqtt = "looping"
    /\ bus_cmd = "none"
    /\ history = <<>>
    /\ probe = FALSE
    /\ ticks = 0
    /\ ops = 0
    /\ timeouts = << 900, 950 >>
    /\ win0 = <<>>
    /\ failed = [i \in 1..MaxThreads |-> FALSE]
    /\ stale = [i \in 1..MaxThreads |-> FALSE]

NextSweep ==
    \/ \E d \in Steps : Tick(d)
    \/ Run_Loop
    \/ Sweep_IterRaise
    \/ Sweep_IterStep
    \/ Sweep_IterStop
    \/ Sweep_Remove
    \/ Sweep_RemoveRaise
    \/ Sweep_Trigger
    \/ Sweep_Return
    \/ Run_Finally
    \/ \E topic \in PlainTopics, payload \in PlainPayloads : Bus_Discard(topic, payload)
    \/ \E topic \in PlainTopics, payload \in PlainPayloads : Bus_SetOk(topic, payload)
    \/ \E topic \in PlainTopics, payload \in PlainPayloads : Bus_SetFail(topic, payload)
    \/ \E event \in Events : Ws_Event(event)
    \/ \E event \in Events : Ws_Match(event)
    \/ Ws_Del
    \/ Ws_DelRaise

SpecSweep == InitSweep /\ [][NextSweep]_vars

\* ---------------------------------------------------------------- SpecIO
\* The bridge running, its first sweep done and the next not yet due, with
\* the probe on what it sends.
InitIO ==
    /\ running = TRUE
    /\ pending_confirmations = <<>>
    /\ confirmation_failures = <<>>
    /\ last_check_time = 1000
    /\ ws = "None"
    /\ ws_thread = 1
    /\ ws_stop_event = FALSE
    /\ now = 1000
    /\ last_pub = <<>>
    /\ http_req = <<>>
    /\ http_resp = <<>>
    /\ last_msg = <<>>
    /\ mpc = "loop"
    /\ current_time = 0
    /\ restart_needed = FALSE
    /\ keys_to_remove = <<>>
    /\ it_used = 0
    /\ it_pos = 1
    /\ rm_pos = 1
    /\ wpc = "idle"
    /\ w_event = <<>>
    /\ worker = [i \in 1..MaxThreads |-> IF i = 1 THEN "top" ELSE "none"]
    /\ rpc = [main |-> "none", bus |-> "none"]
    /\ retry_count = [main |-> 0, bus |-> 0]
    /\ mqtt = "looping"
    /\ bus_cmd = "none"
    /\ history = <<>>
    /\ probe = TRUE
    /\ ticks = 0
    /\ ops = 0
    /\ timeouts = <<>>
    /\ win0 = <<>>
    /\ failed = [i \in 1..MaxThreads |-> FALSE]
    /\ stale = [i \in 1..MaxThreads |-> FALSE]

NextIO ==
    \/ \E topic \in TopicsIn, payload \in Payloads : Bus_Discard(topic, payload)
    \/ \E topic \in TopicsIn, payload \in Payloads : Bus_SetOk(topic, payload)
    \/ \E topic \in TopicsIn, payload \in Payloads : Bus_SetFail(topic, payload)
    \/ \E event \in Events : Ws_Event(event)
    \/ \E event \in Events : Ws_Match(event)
    \/ Ws_Del

SpecIO == InitIO /\ [][NextIO]_vars

\* -------------------------------------------------------------- SpecConn
\* The threads that can run reset_connections: the main thread (the sweep's
\* trigger) and the bus thread (the ihc/system/restart command).
Callers == {"main", "bus"}

\* What the life cycle of the event-stream thread leaves alone.
restVars == << regVars, now, current_time, restart_needed,
               keys_to_remove, it_used, it_pos, rm_pos, relayVars, obsVars >>
\* The same without the marks kept by thread id.
stateVars == << regVars, now, current_time, restart_needed,
                keys_to_remove, it_used, it_pos, rm_pos, relayVars,
                probe, ticks, ops, timeouts, win0 >>

\* Thread objects created so far, and those a running reset_connections will create.
ThreadsClaimed == ws_thread + Cardinality({c \in Callers : rpc[c] # "none"})

\* The sweep triggers restart_ihc_server on the main thread.
Main_Restart ==
    /\ mpc = "loop"
    /\ running
    /\ rpc["main"] = "none"
    /\ ThreadsClaimed < MaxThreads
    /\ mpc' = "restart"
    /\ rpc' = [rpc EXCEPT !["main"] = "run"]
    /\ retry_count' = retry_count
    /\ Quiet
    /\ UNCHANGED << lifeVars, running, ws, ws_thread, ws_stop_event, worker, restVars >>

\* on_message receives the trigger word on ihc/system/restart:
\* restart_ihc_server is called on the bus thread.
Bus_Restart(topic, payload) ==
    /\ BusLoopRunning
    /\ rpc["bus"] = "none"
    /\ topic = SystemRestart
    /\ IsTrigger(payload)
    /\ ThreadsClaimed < MaxThreads
    /\ bus_cmd' = "restart"
    /\ rpc' = [rpc EXCEPT !["bus"] = "run"]
    /\ retry_count' = retry_count
    /\ last_msg' = Sent(Message(topic, payload))
    /\ last_pub' = <<>>
    /\ http_req' = <<>>
    /\ http_resp' = <<>>
    /\ UNCHANGED << mqtt, history, running, ws, ws_thread, ws_stop_event, worker, mpc,
                    restVars >>

\* What the caller of restart_ihc_server does when it returns: on_message
\* publishes the status notice and returns; the sweep returns to run's loop.
Returns(c) ==
    /\ rpc' = [rpc EXCEPT ![c] = "none"]
    /\ retry_count' = [retry_count EXCEPT ![c] = 0]
    /\ mpc' = IF c = "main" THEN "loop" ELSE mpc
    /\ bus_cmd' = IF c = "bus" THEN "none" ELSE bus_cmd
    /\ last_pub' = IF c = "bus" /\ bus_cmd = "restart"
                     THEN Sent(Notice("Restarting IHC server")) ELSE <<>>
    /\ http_req' = <<>>
    /\ http_resp' = <<>>
    /\ last_msg' = <<>>

\* subprocess.run(["sudo", "systemctl", "restart", "ihcserver"], check=True)
\* succeeds; 10 s later reset_connections is entered.
Restart_Ok(c) ==
    /\ rpc[c] = "run"
    /\ rpc' = [rpc EXCEPT ![c] = "close"]
    /\ retry_count' = retry_count
    /\ Quiet
    /\ UNCHANGED << lifeVars, running, ws, ws_thread, ws_stop_event, worker, mpc, restVars >>

\* The command exits non-zero: CalledProcessError, caught and logged;
\* restart_ihc_server returns.
Restart_Failed(c) ==
    /\ rpc[c] = "run"
    /\ Returns(c)
    /\ UNCHANGED << mqtt, history, running, ws, ws_thread, ws_stop_event, worker, restVars >>

\* The command cannot be launched: an OSError (FileNotFoundError,
\* PermissionError), which restart_ihc_server does not catch. On the bus
\* thread on_message's except clause logs it; on the main thread it leaves
\* check_pending_confirmations and reaches run's except clause.
Restart_Raised(c) ==
    /\ rpc[c] = "run"
    /\ rpc' = [rpc EXCEPT ![c] = "none"]
    /\ retry_count' = retry_count
    /\ mpc' = IF c = "main" THEN "except" ELSE mpc
    /\ bus_cmd' = IF c = "bus" THEN "none" ELSE bus_cmd
    /\ Quiet
    /\ UNCHANGED << mqtt, history, running, ws, ws_thread, ws_stop_event, worker, restVars >>

\* on_message receives the trigger word on ihc/system/pi_restart:
\* restart_raspberry_pi publishes its notice and sleeps 5 s.
Bus_PiRestart(topic, payload) ==
    /\ BusLoopRunning
    /\ rpc["bus"] = "none"
    /\ topic = SystemPiRestart
    /\ IsTrigger(payload)
    /\ ThreadsClaimed < MaxThreads
    /\ bus_cmd' = "pi_restart"
    /\ rpc' = [rpc EXCEPT !["bus"] = "pi_sleep"]
    /\ retry_count' = retry_count
    /\ last_msg' = Sent(Message(topic, payload))
    /\ last_pub' = Sent(Notice("Restarting Raspberry Pi in 10 seconds..."))
    /\ http_req' = <<>>
    /\ http_resp' = <<>>
    /\ UNCHANGED << mqtt, history, running, ws, ws_thread, ws_stop_event, worker, mpc,
                    restVars >>

\* restart_raspberry_pi closes the connections: running is cleared, the stop
\* event set, the websocket closed, the bus client stopped and disconnected;
\* then it sleeps 5 s more.
Pi_Teardown ==
    /\ rpc["bus"] = "pi_sleep"
    /\ running' = FALSE
    /\ ws_stop_event' = TRUE
    /\ ws' = IF ws = "None" THEN "None" ELSE "closed"
    /\ mqtt' = "stopped"
    /\ history' = Append(history, "pi_teardown")
    /\ rpc' = [rpc EXCEPT !["bus"] = "pi_reboot"]
    /\ retry_count' = retry_count
    /\ Quiet
    /\ UNCHANGED << bus_cmd, ws_thread, worker, mpc, restVars >>

\* subprocess.run(["sudo", "reboot"], check=False) succeeds: the host goes
\* down and the process with it.
Pi_Rebooted ==
    /\ rpc["bus"] = "pi_reboot"
    /\ history' = Append(history, "reboot")
    /\ mpc' = "stopped"
    /\ worker' = [i \in 1..MaxThreads |-> IF worker[i] = "none" THEN "none" ELSE "done"]
    /\ rpc' = [main |-> "none", bus |-> "none"]
    /\ retry_count' = [main |-> 0, bus |-> 0]
    /\ bus_cmd' = "none"
    /\ Quiet
    /\ UNCHANGED << mqtt, running, ws, ws_thread, ws_stop_event, restVars >>

\* The reboot command exits non-zero: with check=False nothing is raised,
\* restart_raspberry_pi and on_message return.
Pi_RebootFailed ==
    /\ rpc["bus"] = "pi_reboot"
    /\ history' = Append(history, "reboot failed")
    /\ rpc' = [rpc EXCEPT !["bus"] = "none"]
    /\ retry_count' = retry_count
    /\ bus_cmd' = "none"
    /\ Quiet
    /\ UNCHANGED << mqtt, running, ws, ws_thread, ws_stop_event, worker, mpc, restVars >>

\* The reboot command cannot be launched: the except clause sets running and
\* calls reset_connections.
Pi_RebootRaised ==
    /\ rpc["bus"] = "pi_reboot"
    /\ history' = Append(history, "reboot failed")
    /\ running' = TRUE
    /\ rpc' = [rpc EXCEPT !["bus"] = "close"]
    /\ retry_count' = retry_count
    /\ Quiet
    /\ UNCHANGED << mqtt, bus_cmd, ws, ws_thread, ws_stop_event, worker, mpc, restVars >>

\* while self.running: finds running false; run goes to its finally clause.
Run_Exit ==
    /\ mpc = "loop"
    /\ ~running
    /\ mpc' = "finally"
    /\ Quiet
    /\ UNCHANGED << lifeVars, running, ws, ws_thread, ws_stop_event, worker, rpc, retry_count, restVars >>

\* if self.ws: self.ws.close(); self.ws = None
Reset_Close(c) ==
    /\ rpc[c] = "close"
    /\ ws' = "None"
    /\ rpc' = [rpc EXCEPT ![c] = "set"]
    /\ retry_count' = retry_count
    /\ Quiet
    /\ UNCHANGED << lifeVars, running, ws_thread, ws_stop_event, worker, mpc, restVars >>

\* self.ws_stop_event.set()
Reset_Set(c) ==
    /\ rpc[c] = "set"
    /\ ws_stop_event' = TRUE
    /\ rpc' = [rpc EXCEPT ![c] = "join"]
    /\ retry_count' = retry_count
    /\ Quiet
    /\ UNCHANGED << lifeVars, running, ws, ws_thread, worker, mpc, restVars >>

\* A thread at this place stays there longer than join waits for it.
OutlastsJoin(pc) == pc = "sleep" /\ retry_sleep > join_timeout

\* if self.ws_thread.is_alive(): self.ws_thread.join(timeout=3): the thread
\* has ended, or the wait times out on a thread asleep between two attempts.
Reset_Join(c) ==
    /\ rpc[c] = "join"
    /\ \/ worker[ws_thread] = "done"
       \/ OutlastsJoin(worker[ws_thread])
    /\ rpc' = [rpc EXCEPT ![c] = "clear"]
    /\ retry_count' = retry_count
    /\ Quiet
    /\ UNCHANGED << lifeVars, running, ws, ws_thread, ws_stop_event, worker, mpc, restVars >>

\* self.ws_stop_event.clear()
Reset_Clear(c) ==
    /\ rpc[c] = "clear"
    /\ ws_stop_event' = FALSE
    /\ rpc' = [rpc EXCEPT ![c] = "start"]
    /\ retry_count' = retry_count
    /\ Quiet
    /\ UNCHANGED << lifeVars, running, ws, ws_thread, worker, mpc, restVars >>

\* self.ws_thread = Thread(target=self.websocket_worker); self.ws_thread.start();
\* retry_count = 0
Reset_Start(c) ==
    /\ rpc[c] = "start"
    /\ ws_thread' = ws_thread + 1
    /\ worker' = [worker EXCEPT ![ws_thread + 1] = "top"]
    /\ rpc' = [rpc EXCEPT ![c] = "probe"]
    /\ retry_count' = [retry_count EXCEPT ![c] = 0]
    /\ Quiet
    /\ UNCHANGED << lifeVars, running, ws, ws_stop_event, mpc, restVars >>

\* while retry_count < max_retries
MoreProbes_Inclusive(n) == n <= max_retries
MoreProbes(n) == n < max_retries

\* The getAll request test_ihc_connection posts.
GetAll == [type |-> "getAll"]

\* test_ihc_connection() is true (the controller answers 200):
\* reset_connections returns True, restart_ihc_server returns, and the caller
\* goes on as in Returns.
Reset_ProbeOk(c) ==
    /\ rpc[c] = "probe"
    /\ MoreProbes(retry_count[c])
    /\ rpc' = [rpc EXCEPT ![c] = "none"]
    /\ retry_count' = [retry_count EXCEPT ![c] = 0]
    /\ mpc' = IF c = "main" THEN "loop" ELSE mpc
    /\ bus_cmd' = IF c = "bus" THEN "none" ELSE bus_cmd
    /\ last_pub' = IF c = "bus" /\ bus_cmd = "restart"
                     THEN Sent(Notice("Restarting IHC server")) ELSE <<>>
    /\ http_req' = Sent(GetAll)
    /\ http_resp' = Sent([status |-> 200])
    /\ last_msg' = <<>>
    /\ UNCHANGED << mqtt, history, running, ws, ws_thread, ws_stop_event, worker, restVars >>

\* test_ihc_connection() is false (another status, or a RequestException):
\* retry_count += 1; time.sleep(5)
Reset_ProbeFail(c) ==
    /\ rpc[c] = "probe"
    /\ MoreProbes(retry_count[c])
    /\ retry_count' = [retry_count EXCEPT ![c] = retry_count[c] + 1]
    /\ \E response \in Failures : http_resp' = Sent(response)
    /\ http_req' = Sent(GetAll)
    /\ last_pub' = <<>>
    /\ last_msg' = <<>>
    /\ UNCHANGED << lifeVars, running, ws, ws_thread, ws_stop_event, worker, rpc, mpc,
                    restVars >>

\* The while condition fails after max_retries failed probes:
\* reset_connections logs and returns False to its caller.
Reset_Return(c) ==
    /\ rpc[c] = "probe"
    /\ ~MoreProbes(retry_count[c])
    /\ Returns(c)
    /\ UNCHANGED << mqtt, history, running, ws, ws_thread, ws_stop_event, worker, restVars >>

\* ---- websocket_worker, thread i
\* while not self.ws_stop_event.is_set(): (the outer loop)
Worker_Top(i) ==
    /\ worker[i] = "top"
    /\ worker' = [worker EXCEPT ![i] = IF ws_stop_event THEN "done" ELSE "connect"]
    /\ Quiet
    /\ UNCHANGED << lifeVars, running, ws, ws_thread, ws_stop_event, rpc, retry_count, mpc, restVars >>

\* self.ws = websocket.create_connection(ws_url): self.ws now names the new
\* connection, also for a thread that read a ping from the previous one.
Worker_Connect(i) ==
    /\ worker[i] = "connect"
    /\ ws' = "open"
    /\ worker' = [worker EXCEPT ![i] = "inner"]
    /\ stale' = [j \in 1..MaxThreads |-> stale[j] \/ (j # i /\ worker[j] = "pong")]
    /\ Quiet
    /\ UNCHANGED << lifeVars, running, ws_thread, ws_stop_event, rpc, retry_count, mpc, stateVars, failed >>

\* create_connection raises: logged by the outer except clause.
Worker_ConnectFail(i) ==
    /\ worker[i] = "connect"
    /\ worker' = [worker EXCEPT ![i] = "retry"]
    /\ failed' = [failed EXCEPT ![i] = TRUE]
    /\ Quiet
    /\ UNCHANGED << lifeVars, running, ws, ws_thread, ws_stop_event, rpc, retry_count, mpc, stateVars, stale >>

\* while not self.ws_stop_event.is_set(): (the read loop)
Worker_Inner(i) ==
    /\ worker[i] = "inner"
    /\ worker' = [worker EXCEPT ![i] = IF ws_stop_event THEN "close" ELSE "recv"]
    /\ Quiet
    /\ UNCHANGED << lifeVars, running, ws, ws_thread, ws_stop_event, rpc, retry_count, mpc, restVars >>

\* self.ws.recv() returns an event, which is processed, or times out: the
\* read loop goes on.
Worker_Recv(i) ==
    /\ worker[i] = "recv"
    /\ ws = "open"
    /\ worker' = [worker EXCEPT ![i] = "inner"]
    /\ Quiet
    /\ UNCHANGED << lifeVars, running, ws, ws_thread, ws_stop_event, rpc, retry_count, mpc, restVars >>

\* self.ws.recv() returns a frame whose type is "ping".
Worker_Ping(i) ==
    /\ worker[i] = "recv"
    /\ ws = "open"
    /\ worker' = [worker EXCEPT ![i] = "pong"]
    /\ stale' = [stale EXCEPT ![i] = FALSE]
    /\ Quiet
    /\ UNCHANGED << lifeVars, running, ws, ws_thread, ws_stop_event, rpc, retry_count, mpc, stateVars, failed >>

\* self.ws.send(json.dumps({"type": "pong"})); continue: the pong goes to the
\* connection self.ws names now, and the read loop goes on; process_ihc_event
\* is not called.
Worker_Pong(i) ==
    /\ worker[i] = "pong"
    /\ ws = "open"
    /\ worker' = [worker EXCEPT ![i] = "inner"]
    /\ stale' = [stale EXCEPT ![i] = FALSE]
    /\ Quiet
    /\ UNCHANGED << lifeVars, running, ws, ws_thread, ws_stop_event, rpc, retry_count, mpc, stateVars, failed >>

\* The send raises (WebSocketException on a closed connection: break;
\* AttributeError on self.ws = None: the outer except clause).
Worker_PongFail(i) ==
    /\ worker[i] = "pong"
    /\ worker' = [worker EXCEPT ![i] = IF ws = "None" THEN "retry" ELSE "close"]
    /\ failed' = [failed EXCEPT ![i] = TRUE]
    /\ stale' = [stale EXCEPT ![i] = FALSE]
    /\ Quiet
    /\ UNCHANGED << lifeVars, running, ws, ws_thread, ws_stop_event, rpc, retry_count, mpc, stateVars >>

\* recv raises WebSocketException (the peer or another thread closed the
\* connection): break, then the close after the loop; on self.ws = None the
\* AttributeError reaches the outer except clause.
Worker_RecvFail(i) ==
    /\ worker[i] = "recv"
    /\ worker' = [worker EXCEPT ![i] = IF ws = "None" THEN "retry" ELSE "close"]
    /\ failed' = [failed EXCEPT ![i] = TRUE]
    /\ Quiet
    /\ UNCHANGED << lifeVars, running, ws, ws_thread, ws_stop_event, rpc, retry_count, mpc, stateVars, stale >>

\* if self.ws: self.ws.close()
Worker_Close(i) ==
    /\ worker[i] = "close"
    /\ ws' = IF ws = "None" THEN "None" ELSE "closed"
    /\ worker' = [worker EXCEPT ![i] = "retry"]
    /\ Quiet
    /\ UNCHANGED << lifeVars, running, ws_thread, ws_stop_event, rpc, retry_count, mpc, restVars >>

\* if not self.ws_stop_event.is_set(): time.sleep(10)
Worker_Retry(i) ==
    /\ worker[i] = "retry"
    /\ worker' = [worker EXCEPT ![i] = IF ws_stop_event THEN "top" ELSE "sleep"]
    /\ Quiet
    /\ UNCHANGED << lifeVars, running, ws, ws_thread, ws_stop_event, rpc, retry_count, mpc, restVars >>

\* The sleep ends.
Worker_Wake(i) ==
    /\ worker[i] = "sleep"
    /\ worker' = [worker EXCEPT ![i] = "top"]
    /\ failed' = [failed EXCEPT ![i] = FALSE]
    /\ Quiet
    /\ UNCHANGED << lifeVars, running, ws, ws_thread, ws_stop_event, rpc, retry_count, mpc, stateVars, stale >>

\* handle_shutdown, on SIGINT or SIGTERM in the main loop: running is
\* cleared, the stop event set, the connection closed, the bus client stopped
\* and disconnected; sys.exit(0) then raises SystemExit in run, which reaches
\* its finally clause.
Shutdown ==
    /\ mpc = "loop"
    /\ running' = FALSE
    /\ ws_stop_event' = TRUE
    /\ ws' = IF ws = "None" THEN "None" ELSE "closed"
    /\ mqtt' = "stopped"
    /\ history' = history \o <<"running=False", "ws_stop_event.set", "ws.close",
                               "loop_stop", "disconnect", "sys.exit">>
    /\ mpc' = "finally"
    /\ Quiet
    /\ UNCHANGED << bus_cmd, ws_thread, worker, rpc, retry_count, restVars >>

\* The object as __init__ leaves it, with the probe on what is sent.
InitConn ==
    /\ running = FALSE
    /\ pending_confirmations = <<>>
    /\ confirmation_failures = <<>>
    /\ last_check_time = 0
    /\ ws = "None"
    /\ ws_thread = 0
    /\ ws_stop_event = FALSE
    /\ now = 1000
    /\ last_pub = <<>>
    /\ http_req = <<>>
    /\ http_resp = <<>>
    /\ last_msg = <<>>
    /\ mpc = "init"
    /\ current_time = 0
    /\ restart_needed = FALSE
    /\ keys_to_remove = <<>>
    /\ it_used = 0
    /\ it_pos = 1
    /\ rm_pos = 1
    /\ wpc = "idle"
    /\ w_event = <<>>
    /\ worker = [i \in 1..MaxThreads |-> "none"]
    /\ rpc = [main |-> "none", bus |-> "none"]
    /\ retry_count = [main |-> 0, bus |-> 0]
    /\ mqtt = "new"
    /\ bus_cmd = "none"
    /\ history = <<>>
    /\ probe = TRUE
    /\ ticks = 0
    /\ ops = 0
    /\ timeouts = <<>>
    /\ win0 = <<>>
    /\ failed = [i \in 1..MaxThreads |-> FALSE]
    /\ stale = [i \in 1..MaxThreads |-> FALSE]

NextConn ==
    \/ Run_Start
    \/ Run_StartFail
    \/ Main_Restart
    \/ \E topic \in SystemTopics, payload \in SystemPayloads : Bus_Discard(topic, payload)
    \/ \E topic \in SystemTopics, payload \in SystemPayloads : Bus_Restart(topic, payload)
    \/ \E topic \in SystemTopics, payload \in SystemPayloads : Bus_PiRestart(topic, payload)
    \/ \E c \in Callers : Restart_Ok(c)
    \/ \E c \in Callers : Restart_Failed(c)
    \/ \E c \in Callers : Restart_Raised(c)
    \/ Pi_Teardown
    \/ Pi_Rebooted
    \/ Pi_RebootFailed
    \/ Pi_RebootRaised
    \/ Run_Exit
    \/ \E c \in Callers : Reset_Close(c)
    \/ \E c \in Callers : Reset_Set(c)
    \/ \E c \in Callers : Reset_Join(c)
    \/ \E c \in Callers : Reset_Clear(c)
    \/ \E c \in Callers : Reset_Start(c)
    \/ \E c \in Callers : Reset_ProbeOk(c)
    \/ \E c \in Callers : Reset_ProbeFail(c)
    \/ \E c \in Callers : Reset_Return(c)
    \/ \E i \in 1..MaxThreads : Worker_Top(i)
    \/ \E i \in 1..MaxThreads : Worker_Connect(i)
    \/ \E i \in 1..MaxThreads : Worker_ConnectFail(i)
    \/ \E i \in 1..MaxThreads : Worker_Inner(i)
    \/ \E i \in 1..MaxThreads : Worker_Recv(i)
    \/ \E i \in 1..MaxThreads : Worker_Ping(i)
    \/ \E i \in 1..MaxThreads : Worker_Pong(i)
    \/ \E i \in 1..MaxThreads : Worker_PongFail(i)
    \/ \E i \in 1..MaxThreads : Worker_RecvFail(i)
    \/ \E i \in 1..MaxThreads : Worker_Close(i)
    \/ \E i \in 1..MaxThreads : Worker_Retry(i)
    \/ \E i \in 1..MaxThreads : Worker_Wake(i)
    \/ Shutdown
    \/ Run_Finally

SpecConn == InitConn /\ [][NextConn]_vars

\* ================================================================ claims

\* The event-stream threads inside their read loop.
ReadLoops == {i \in 1..MaxThreads : worker[i] \in {"inner", "recv", "pong"}}

\* C1: after any sequence of start, rebuild and shutdown, at most one
\* event-stream read loop is active at a time.
C1_OneReadLoop == Cardinality(ReadLoops) <= 1


\* The step that ends a sweep: it triggers the recovery, returns without, or raises.
SweepEnds == InSweep /\ mpc' \notin {"iter", "remove"}

\* How many of the events lie less than failure_window before t.
WithinWindow(events, t) ==
    Cardinality({i \in 1..Len(events) : t - events[i] < failure_window})

\* The last failure_threshold timeout events (since the last trigger) lie
\* within one failure_window.
ThresholdTimeoutsWithinWindow ==
    /\ Len(timeouts) >= failure_threshold
    /\ timeouts[Len(timeouts)] - timeouts[Len(timeouts) - failure_threshold + 1]
         < failure_window

\* The failure window of the running sweep once all its timeouts are appended.
WindowAfterAppends ==
    Prune(win0 \o [i \in 1..Len(keys_to_remove) |-> current_time], current_time)

\* C2: every mutation of the pending-confirmation registry is serialized with
\* the sweep: while a sweep is between the start of its scan and the end of
\* its removals, the only changes of the registry are the sweep's own
\* removals (no register or confirm interleaves).
C2_SweepIsSerialized ==
    [][(InSweep /\ pending_confirmations' # pending_confirmations)
         => rm_pos' = rm_pos + 1]_vars

\* C3: when failure_threshold timeout events have occurred within
\* failure_window, the sweep that saw the last of them ends by triggering the
\* recovery, with the failure window empty.
C3_ThresholdTriggers ==
    [][(SweepEnds /\ ThresholdTimeoutsWithinWindow)
         => (mpc' = "restart" /\ confirmation_failures' = <<>>)]_vars

\* C4: a sweep never decides on, nor triggers, the recovery unless at least
\* failure_threshold timeout events lie within one failure_window.
C4_TriggerNeedsThreshold ==
    /\ []((InSweep /\ restart_needed)
            => WithinWindow(timeouts, current_time) >= failure_threshold)
    /\ [][(mpc # "restart" /\ mpc' = "restart")
            => WithinWindow(timeouts, current_time) >= failure_threshold]_vars

\* C4 witness: a sweep has triggered the recovery.
C4_Witness ==
    /\ mpc = "restart"
    /\ restart_needed
    /\ Len(keys_to_remove) >= 1

\* C5: a sweep triggers the recovery exactly when one threshold check of the
\* window, made after all the timeouts of the sweep were appended, succeeds.
C5_SingleThresholdCheck ==
    [][SweepEnds => ((mpc' = "restart") <=> ThresholdReached(WindowAfterAppends))]_vars

\* C6: the entries a sweep removes are entries whose age exceeds
\* confirmation_timeout.
C6_SweepRemovesExpired ==
    [][(mpc = "remove" /\ rm_pos' = rm_pos + 1)
         => Expired(DictGet(pending_confirmations, keys_to_remove[rm_pos]),
                    current_time)]_vars

\* C7: a confirmation removes the entry of its key only if the entry's
\* expected state is the observed state.
C7_ConfirmRemovesMatch ==
    [][(wpc = "del" /\ wpc' = "idle" /\ pending_confirmations' # pending_confirmations)
         => DictGet(pending_confirmations,
                    KeyOf(w_event.moduleNumber, w_event.ioNumber)).state
              = w_event.state]_vars

\* No two entries of the registry are for the same module and output.
OnePerKey ==
    \A i, j \in 1..Len(pending_confirmations) :
        (/\ pending_confirmations[i].module = pending_confirmations[j].module
         /\ pending_confirmations[i].output = pending_confirmations[j].output)
          => i = j

\* C8: the registry holds at most one pending entry per key, and a successful
\* submission for a key sets that key's expected state and submission time,
\* adding an entry only when the key was not pending.
C8_OneEntryPerKey ==
    /\ []OnePerKey
    /\ [][(ops' # ops /\ wpc' = wpc) => \A topic \in PlainTopics, payload \in PlainPayloads :
            Bus_SetOk(topic, payload) =>
              LET key == <<topic[3], "_", topic[4]>> IN
                /\ DictHas(pending_confirmations', key)
                /\ DictGet(pending_confirmations', key).state = (payload = <<"O", "N">>)
                /\ DictGet(pending_confirmations', key).timestamp = now
                /\ Len(pending_confirmations') = Len(pending_confirmations)
                     + (IF DictHas(pending_confirmations, key) THEN 0 ELSE 1)]_vars

\* C8 witness: both keys are pending, and the entry stored first carries the
\* later submission time: it was replaced in place.
C8_Witness ==
    /\ Len(pending_confirmations) = 2
    /\ pending_confirmations[1].timestamp > pending_confirmations[2].timestamp

\* ON in any letter case.
IsOnAnyCase(payload) ==
    /\ Len(payload) = 2
    /\ payload[1] \in {"O", "o"}
    /\ payload[2] \in {"N", "n"}

\* C9: a command's payload means state true exactly when it is ON in any
\* letter case; that state is sent to the controller, and when the controller
\* accepts it, the pending confirmation (module, output) -> state is stored
\* and ON / OFF published retained on ihc/output/<module>/<output>/state.
C9_CommandIngress ==
    [][\A m \in Modules, o \in Outputs, payload \in Payloads :
         LET topic == <<"ihc", "output", Str(m), Str(o), "set">>
             state == IsOnAnyCase(payload)
             key == <<Str(m), "_", Str(o)>> IN
           /\ (Bus_SetOk(topic, payload) \/ Bus_SetFail(topic, payload)) =>
                http_req' = [type |-> "setOutput", moduleNumber |-> m, ioNumber |-> o,
                             state |-> state]
           /\ Bus_SetOk(topic, payload) =>
                /\ DictHas(pending_confirmations', key)
                /\ DictGet(pending_confirmations', key).state = state
                /\ DictGet(pending_confirmations', key).module = m
                /\ DictGet(pending_confirmations', key).output = o
                /\ last_pub' = [topic |-> <<"ihc", "output", Str(m), Str(o), "state">>,
                                payload |-> (IF state THEN "ON" ELSE "OFF"),
                                retain |-> TRUE]]_vars

\* C9 witness: an ON command for module 4, output 2 was accepted: the POST,
\* the pending confirmation and the retained publish.
C9_Witness ==
    /\ http_req = [type |-> "setOutput", moduleNumber |-> 4, ioNumber |-> 2,
                   state |-> TRUE]
    /\ last_pub = [topic |-> <<"ihc", "output", "4", "2", "state">>, payload |-> "ON",
                   retain |-> TRUE]
    /\ DictHas(pending_confirmations, <<"4", "_", "2">>)
    /\ DictGet(pending_confirmations, <<"4", "_", "2">>).state = TRUE

\* C10: an output-state event that matches a pending confirmation is
\* published, retained, on the topic of the command's echo,
\* ihc/output/<module>/<output>/state.
C10_ConfirmRepublishes ==
    [][\A event \in Events :
         Ws_Match(event) =>
           last_pub' = [topic |-> <<"ihc", "output", Str(event.moduleNumber),
                                    Str(event.ioNumber), "state">>,
                        payload |-> (IF event.state THEN "ON" ELSE "OFF"),
                        retain |-> TRUE]]_vars

\* The command topics: ihc/output/<integer>/<integer>/set.
CommandTopics == { <<"ihc", "output", a, b, "set">> : a, b \in {"1", "2", "4"} }

\* C11: a bus message whose topic is not ihc/output/<integer>/<integer>/set
\* is discarded: handling it submits no device write, publishes nothing and
\* leaves the registry and the failure window unchanged.
C11_Discard ==
    [][\A topic \in TopicsIn \ CommandTopics, payload \in Payloads :
         last_msg' = [topic |-> topic, payload |-> payload] =>
           /\ http_req' = <<>>
           /\ last_pub' = <<>>
           /\ pending_confirmations' = pending_confirmations
           /\ confirmation_failures' = confirmation_failures]_vars

\* C11 witness: with a confirmation pending, a message whose module segment
\* is no integer has been handled.
C11_Witness ==
    /\ last_msg = [topic |-> <<"ihc", "output", "x", "1", "set">>, payload |-> <<"O", "N">>]
    /\ pending_confirmations # <<>>

\* C12: when the device write fails (a status other than 200, or a transport
\* exception), the registry is left as it was (no entry registered, the
\* key's pending entry unchanged) and nothing is published.
C12_FailedWrite ==
    [][(http_resp' # <<>> /\ http_resp' # [status |-> 200]) =>
         /\ pending_confirmations' = pending_confirmations
         /\ last_pub' = <<>>]_vars

\* C12 witness: key 4_1 is pending and a write for it has just failed with an
\* exception.
C12_Witness ==
    /\ http_resp = [raised |-> "RequestException"]
    /\ http_req # <<>>
    /\ http_req = [type |-> "setOutput", moduleNumber |-> 4, ioNumber |-> 1,
                   state |-> FALSE]
    /\ DictHas(pending_confirmations, <<"4", "_", "1">>)
    /\ DictGet(pending_confirmations, <<"4", "_", "1">>).state = TRUE

\* C13: on shutdown the event-stream loop is signalled and joined before the
\* bus client is stopped and disconnected.
C13_ShutdownOrder ==
    \A i \in 1..Len(history) :
        history[i] \in {"loop_stop", "disconnect"}
          => \E j \in 1..(i - 1) : history[j] = "ws_thread.join"

\* The reboot invocation has just failed and restart_raspberry_pi has
\* returned to on_message: nothing has happened since.
RebootFailedReturned ==
    /\ Len(history) > 0
    /\ history[Len(history)] = "reboot failed"
    /\ rpc["bus"] = "none"

\* C14: once a failed host-reboot invocation has been handled, the bridge is
\* back in normal operation: running is true, the sweep loop is running, the
\* event-stream thread is unsignalled and the bus client is connected again.
C14_FailedRebootResumes ==
    RebootFailedReturned =>
        /\ running
        /\ mpc = "loop"
        /\ ~ws_stop_event
        /\ mqtt = "looping"

\* C15: when the service-restart invocation made by the sweep ends, however
\* it ends, control is still inside the escalation or back in the sweep loop:
\* run's except and finally clauses are not entered.
C15_RestartFailureContained ==
    [][(mpc = "restart" /\ rpc["main"] = "run" /\ rpc'["main"] # "run"
          /\ history' = history)
         => mpc' \in {"restart", "loop"}]_vars

\* C16: whatever endpoint was unreachable at startup, once run has left its
\* startup code the bridge has been started: the event-stream thread and the
\* bus network loop have been created.
C16_StartsAnyway ==
    mpc # "init" => (ws_thread # 0 /\ mqtt # "new")

\* The payload is the word "restart" in any mix of upper and lower case.
IsRestartAnyCase(payload) ==
    /\ Len(payload) = 7
    /\ payload[1] \in {"R", "r"}
    /\ payload[2] \in {"E", "e"}
    /\ payload[3] \in {"S", "s"}
    /\ payload[4] \in {"T", "t"}
    /\ payload[5] \in {"A", "a"}
    /\ payload[6] \in {"R", "r"}
    /\ payload[7] \in {"T", "t"}

\* C17: a message on ihc/system/restart or ihc/system/pi_restart starts the
\* topic's escalation action when its payload is the trigger word in any
\* case; with any other payload no escalation starts, nothing is posted,
\* nothing is published, and the registry and the failure window are as
\* before.
C17_ControlTopics ==
    [][\A topic \in SystemTopics, payload \in SystemPayloads :
         last_msg' = [topic |-> topic, payload |-> payload] =>
           IF IsRestartAnyCase(payload)
             THEN /\ bus_cmd' = IF topic = SystemRestart THEN "restart" ELSE "pi_restart"
                  /\ rpc'["bus"] # "none"
             ELSE /\ bus_cmd' = "none"
                  /\ rpc' = rpc
                  /\ http_req' = <<>>
                  /\ last_pub' = <<>>
                  /\ pending_confirmations' = pending_confirmations
                  /\ confirmation_failures' = confirmation_failures]_vars

\* C17 witness: "restart" in lower case on ihc/system/restart has started the
\* service restart on the bus thread.
C17_Witness ==
    /\ last_msg = [topic |-> SystemRestart,
                   payload |-> <<"r", "e", "s", "t", "a", "r", "t">>]
    /\ bus_cmd = "restart"
    /\ rpc["bus"] = "run"

\* C18: an entry that the sweep in progress read as not yet expired is never
\* found expired for more than one sweep interval (1 s) before that sweep
\* has returned to run's loop.
C18_DetectedWithinInterval ==
    (InSweep \/ mpc = "restart") =>
        \A i \in 1..Len(pending_confirmations) :
            ~Expired(pending_confirmations[i], current_time)
              => now - pending_confirmations[i].timestamp <= confirmation_timeout + 1

\* C19: while no shutdown or host restart has been requested, a thread whose
\* connect or read has failed makes its next connect attempt only after the
\* fixed delay.
C19_ReconnectAfterDelay ==
    history = <<>> =>
        \A i \in 1..MaxThreads : worker[i] = "connect" => ~failed[i]

\* C20: a thread that has read a ping answers it on the stream the ping came
\* from: self.ws still names that connection when the pong is sent.
C20_PongOnSameStream ==
    \A i \in 1..MaxThreads : worker[i] = "pong" => ~stale[i]

\* A probe of the command API has just been answered.
Probed == http_req' = GetAll /\ http_resp' # <<>>

\* C21: reset_connections makes at most max_retries probes: a probe that
\* succeeds ends it at once, a probe that fails is counted and leaves it
\* probing, and it returns only after a successful probe or after the fifth
\* failed one, to a caller that goes on: the sweep is back in run's loop, and
\* still running unless a shutdown or host restart came in between.
C21_BoundedProbes ==
    [][/\ \A c \in Callers : retry_count'[c] <= max_retries
       /\ (Probed /\ http_resp' = [status |-> 200])
            => \E c \in Callers : rpc[c] = "probe" /\ rpc'[c] = "none"
       /\ (Probed /\ http_resp' # [status |-> 200])
            => \E c \in Callers : /\ rpc[c] = "probe" /\ rpc'[c] = "probe"
                                   /\ retry_count'[c] = retry_count[c] + 1
       /\ \A c \in Callers :
            (rpc[c] = "probe" /\ rpc'[c] # "probe" /\ mpc' # "stopped")
              => /\ rpc'[c] = "none"
                 /\ http_resp' = [status |-> 200] \/ retry_count[c] = max_retries
                 /\ c = "main" => mpc' = "loop"
                 /\ (c = "main" /\ history = <<>>) => running']_vars

\* C21 witness: the sweep's rebuild has made its fifth probe, which failed
\* like the four before.
C21_Witness ==
    /\ rpc["main"] = "probe"
    /\ retry_count["main"] = max_retries
    /\ http_req = GetAll
    /\ http_resp \in Failures

\* C22: when the sweep reads the failure window for the threshold check (it
\* has just appended a timeout and pruned), every timestamp in the window is
\* less than failure_window before the sweep's time and not after it; and the
\* window changes only in two steps of the sweep: that append-and-prune, and
\* the reset when the recovery is triggered.
C22_WindowWithinSpan ==
    [][/\ (mpc = "iter" /\ timeouts' # timeouts)
            => \A j \in 1..Len(confirmation_failures') :
                   /\ current_time - confirmation_failures'[j] < failure_window
                   /\ confirmation_failures'[j] <= current_time
       /\ (confirmation_failures' # confirmation_failures)
            => \/ /\ mpc = "iter"
                  /\ it_pos' = it_pos + 1
                  /\ timeouts' = Append(timeouts, current_time)
               \/ /\ mpc = "remove"
                  /\ mpc' = "restart"
                  /\ confirmation_failures' = <<>>]_vars

\* C22 witness: the window held timeouts a whole failure_window old when the
\* sweep began; after the sweep's first timeout only that one is left.
C22_Witness ==
    /\ InSweep
    /\ win0 # <<>>
    /\ \A j \in 1..Len(win0) : current_time - win0[j] >= failure_window
    /\ confirmation_failures = << current_time >>

====
